---- MODULE Spec2Model ----
(***************************************************************************)
(* A model of the drand client: the latency window of an HTTP endpoint     *)
(* (src/src/http.rs), the policy engine of Http::boot_phase2 / Http::get,  *)
(* the verification sweep Http::verify, the chain verifier                 *)
(* (src/src/verify.rs) and the endpoint pool (src/src/endpoints.rs).       *)
(*                                                                         *)
(* Durations are integer counts of ticks.  Rust's Duration has a tick of   *)
(* one nanosecond; the model's tick is 1/TicksPerSec second, so that the   *)
(* 24 hours of MAX_ELAPSED fit TLC's integers.  All Duration arithmetic    *)
(* (sum, division by the sample count, doubling, min) is the integer       *)
(* arithmetic Rust performs on ticks.                                      *)
(***************************************************************************)
EXTENDS Integers, Sequences, FiniteSets, TLC

VARIABLES
    state,      \* Endpoints.state : State (info, check_point, determinism, secure)
    endpoints,  \* Endpoints.endpoints : Vec<Inner>, each the latency window of an Http
    pc,         \* where the client's current call stands
    call,       \* the locals of the call in progress
    result,     \* what the last finished call returned to the caller
    http_log,   \* the HTTP requests issued by the current (or last) call
    test        \* the locals of http_test.rs test_elapsed (a, b, number of pushes)

vars == <<state, endpoints, pc, call, result, http_log, test>>

----------------------------------------------------------------------------
(* Bounds of the model *)

\* ticks per second (Rust: 1_000_000_000)
TicksPerSec == 1
\* highest round number an endpoint serves
MaxRound == 3
\* number of endpoints added to the pool before the first call
NumEndpoints == 2
\* number of boot calls the client makes
MaxBoots == 1
\* number of samples pushed in one window behaviour
MaxPushes == 3
\* number of failed fetches the network produces during one verification sweep
MaxSweepFailures == 2

----------------------------------------------------------------------------
(* Program constants *)

MAX_ELAPSED_WINDOW == 32

\* time::Duration::from_secs(3600 * 24)
MAX_ELAPSED == 3600 * 24 * TicksPerSec

\* u64::MAX, the seconds of the empty window's sentinel; scaled down to fit
\* TLC's integers, and still above twice every other duration of the model.
U64_MAX == 100000000

\* Duration::MAX: u64::MAX seconds and all the ticks below the next second
DURATION_MAX == U64_MAX * TicksPerSec + (TicksPerSec - 1)

\* the window of Http::verify
VERIFY_BATCH == 1000

\* core::MAX_CONNS, the default of the connection limit of a configuration
MAX_CONNS == 4

----------------------------------------------------------------------------
(* Option<T> *)

None == <<>>

Some(x) == <<x>>

IsSome(o) == o # <<>>

Unwrap(o) == o[1]

----------------------------------------------------------------------------
(* The latency window: Http::to_elapsed, Http::add_elapsed, add_elapsed!   *)

RECURSIVE SumDur(_)
SumDur(es) == IF es = <<>> THEN 0 ELSE es[1] + SumDur(Tail(es))

\* Http::to_elapsed: the sentinel for an empty window, else sum / n (truncating)
to_elapsed(es) ==
    IF Len(es) = 0 THEN U64_MAX * TicksPerSec
    ELSE SumDur(es) \div Len(es)

\* a slip of add_elapsed: the newest sample is dropped instead of the oldest
add_elapsed_evict_newest(es, elapsed) ==
    IF Len(es) >= MAX_ELAPSED_WINDOW
    THEN Append(SubSeq(es, 1, Len(es) - 1), elapsed)
    ELSE Append(es, elapsed)

\* Http::add_elapsed: es.remove(0) when the window is full, then es.push(elapsed)
add_elapsed(es, elapsed) ==
    IF Len(es) >= MAX_ELAPSED_WINDOW
    THEN Append([i \in 1..(Len(es) - 1) |-> es[i + 1]], elapsed)
    ELSE Append(es, elapsed)

\* Duration * 2 panics on overflow ("overflow when multiplying duration by scalar")
MulOverflows(d) == d * 2 > DURATION_MAX

\* a slip of the penalty: the doubled average is pushed without the cap
penalty_uncapped(es) == to_elapsed(es) * 2

\* the Err arm of add_elapsed!: cmp::min(to_elapsed() * 2, MAX_ELAPSED)
penalty(es) ==
    IF to_elapsed(es) * 2 < MAX_ELAPSED THEN to_elapsed(es) * 2 ELSE MAX_ELAPSED

----------------------------------------------------------------------------
(* Bytes, keys and the beacon's chain.  Byte strings are sequences of      *)
(* integers.  A BLS signature is modelled symbolically: the signature of   *)
(* key pk over (previous_signature, round) is the previous signature       *)
(* followed by pk and round, so that distinct (pk, previous, round) give   *)
(* distinct signatures and a signature verifies under one key only.        *)

\* Vec::default(), the bytes of Info::default()
EMPTY_BYTES == <<>>

\* the public key of the beacon group (/info public_key)
GROUP_PK == <<48>>

\* a well-formed public key that is not the group's
OTHER_PK == <<49>>

\* the chain hash of the group (/info hash), MAINNET_CHAIN_HASH
CHAIN_HASH == <<32>>

\* a chain hash that is not the group's
OTHER_HASH == <<33>>

\* /info group_hash, the previous_signature of round 1
GROUP_HASH == <<17>>

\* the threshold signature of pk over SHA-256(previous_signature || round)
Sign(pk, previous_signature, round) == previous_signature \o pk \o <<round>>

\* Sha256 of a byte string: injective, and never the string itself
Sha256(bytes) == <<256>> \o bytes

\* drand_verify::verify: the pairing check of signature under pk
BLSVerify(pk, round, previous_signature, signature) ==
    signature = Sign(pk, previous_signature, round)

\* the signature of round k in the chain signed by pk
RECURSIVE ChainSig(_, _)
ChainSig(pk, k) ==
    IF k = 0 THEN GROUP_HASH ELSE Sign(pk, ChainSig(pk, k - 1), k)

\* struct Random
Random(round, randomness, signature, previous_signature) ==
    [round |-> round, randomness |-> randomness, signature |-> signature,
     previous_signature |-> previous_signature]

\* round k as the group published it
Honest(k) ==
    Random(k, Sha256(ChainSig(GROUP_PK, k)), ChainSig(GROUP_PK, k),
           ChainSig(GROUP_PK, k - 1))

\* round k of a chain signed by another key, with a randomness that is not
\* the hash of its signature
Forged(k) ==
    Random(k, Sha256(GROUP_HASH), ChainSig(OTHER_PK, k), ChainSig(OTHER_PK, k - 1))

Rounds == 1..MaxRound

\* what an endpoint may answer to /public/latest or /public/{n}
Randoms == {Honest(k) : k \in Rounds} \cup {Forged(k) : k \in Rounds}

\* struct Info (period and genesis_time take no part in any decision)
Info(public_key, hash) ==
    [public_key |-> public_key, hash |-> hash, group_hash |-> GROUP_HASH]

\* Info::default()
InfoDefault ==
    [public_key |-> EMPTY_BYTES, hash |-> EMPTY_BYTES, group_hash |-> EMPTY_BYTES]

\* what an endpoint may answer to /info
Infos == {Info(pk, h) : pk \in {GROUP_PK, OTHER_PK}, h \in {CHAIN_HASH, OTHER_HASH}}

\* verify_chain of verify.rs: "NotSecure" for a broken link or an undecodable
\* key, "panic" when pk is not 48 bytes long (clone_from_slice), else the
\* result of the pairing check
verify_chain(pk, previous_signature, curr) ==
    IF previous_signature # curr.previous_signature THEN "NotSecure"
    ELSE IF pk = EMPTY_BYTES THEN "panic"
    ELSE IF BLSVerify(pk, curr.round, previous_signature, curr.signature)
         THEN "true" ELSE "false"

----------------------------------------------------------------------------
(* The values of the variables after construction *)

\* State::from(Config): info is Info::default(), the rest is the
\* configuration, whose connection limit is left at its default
StateFrom(check_point, determinism, secure) ==
    [info |-> InfoDefault, check_point |-> check_point,
     determinism |-> determinism, secure |-> secure, rate_limit |-> MAX_CONNS]

\* State::default()
StateDefault == [StateFrom(None, FALSE, FALSE) EXCEPT !.rate_limit = 0]

\* no call in progress
CallIdle ==
    [op |-> "none", round |-> None, rot |-> None, sel |-> <<>>, res |-> <<>>,
     ep |-> <<>>, st |-> StateDefault, r |-> None, prev |-> None, ret |-> "none",
     info |-> None, latest |-> None, tail |-> <<>>, fails |-> 0, boots |-> 0,
     booted |-> FALSE]

\* nothing returned yet
ResultNone == [op |-> "none", kind |-> "none", value |-> None]

\* test_elapsed not running
TestIdle == [a |-> 0, b |-> 0, k |-> 0, res |-> "none"]

----------------------------------------------------------------------------
(* One HTTP request and what the endpoint adapter makes of it              *)

\* latencies measured by async_get! in the behaviours of the pool
Elapsed == {TicksPerSec}

\* the errors of one fetch: transport (IOError), body (JsonParse), hex (HexParse)
FetchErrors == {"IOError", "JsonParse", "HexParse"}

\* what a request for a round can come to: an error, or a decoded Random
Outcomes ==
    {[tag |-> t, r |-> None, elapsed |-> e] : t \in FetchErrors, e \in Elapsed}
        \cup {[tag |-> "Ok", r |-> Some(x), elapsed |-> e] : x \in Randoms, e \in Elapsed}

\* what a request for /info can come to: an error, or a decoded Info
InfoOutcomes ==
    {[tag |-> t, r |-> None, elapsed |-> e] : t \in FetchErrors, e \in Elapsed}
        \cup {[tag |-> "Ok", r |-> Some(x), elapsed |-> e] : x \in Infos, e \in Elapsed}

\* an HTTP request of endpoint ep: kind is "info", "latest" or "round" (then n)
Req(ep, kind, n) == [ep |-> ep, kind |-> kind, n |-> n]

\* the request for round (an Option): make_url!("public", ep) or (.., ep, r)
RoundReq(ep, round) ==
    IF IsSome(round) THEN Req(ep, "round", Unwrap(round)) ELSE Req(ep, "latest", 0)

\* async_get! and add_elapsed! of one request, then the decoding of the body:
\* a transport error pushes the penalty (and panics if the doubling overflows),
\* every answer pushes its latency, whether or not its body decodes
Fetch(es, out) ==
    IF out.tag = "IOError"
    THEN IF MulOverflows(to_elapsed(es))
         THEN [es |-> es, kind |-> "panic", r |-> None]
         ELSE [es |-> add_elapsed(es, penalty(es)), kind |-> "IOError", r |-> None]
    ELSE [es |-> add_elapsed(es, out.elapsed), kind |-> out.tag, r |-> out.r]

\* Http::do_get
do_get(es, out) == Fetch(es, out)

\* a slip of boot_phase1: the root of trust is not compared with info.hash
boot_phase1_no_rot(es, rot, iout, lout) ==
    LET i == Fetch(es, iout)
        l == do_get(i.es, lout)
    IN  IF i.kind # "Ok"
        THEN [es |-> i.es, kind |-> i.kind, info |-> None, latest |-> None,
              reqs |-> {"info"}]
        ELSE IF l.kind # "Ok"
        THEN [es |-> l.es, kind |-> l.kind, info |-> None, latest |-> None,
              reqs |-> {"info", "latest"}]
        ELSE [es |-> l.es, kind |-> "Ok", info |-> i.r, latest |-> l.r,
              reqs |-> {"info", "latest"}]

\* Http::boot_phase1: /info, the root-of-trust check, then /public/latest
boot_phase1(es, rot, iout, lout) ==
    LET i == Fetch(es, iout)
        l == do_get(i.es, lout)
    IN  IF i.kind # "Ok"
        THEN [es |-> i.es, kind |-> i.kind, info |-> None, latest |-> None,
              reqs |-> {"info"}]
        ELSE IF IsSome(rot) /\ Unwrap(rot) # Unwrap(i.r).hash
        THEN [es |-> i.es, kind |-> "NotSecure", info |-> None, latest |-> None,
              reqs |-> {"info"}]
        ELSE IF l.kind # "Ok"
        THEN [es |-> l.es, kind |-> l.kind, info |-> None, latest |-> None,
              reqs |-> {"info", "latest"}]
        ELSE [es |-> l.es, kind |-> "Ok", info |-> i.r, latest |-> l.r,
              reqs |-> {"info", "latest"}]

\* a slip of the policy of get: the short-circuit for an earlier round is missing
policy_get_no_short_circuit(st, round, r) ==
    IF IsSome(st.check_point) /\ st.secure
    THEN [verify |-> TRUE, check_point |-> st.check_point]
    ELSE [verify |-> FALSE, check_point |-> Some(r)]

\* the match of Http::get on (state.check_point.take(), round): either the
\* check_point to store, or a sweep from the check_point to r
policy_get(st, round, r) ==
    IF IsSome(st.check_point) /\ IsSome(round)
          /\ Unwrap(round) <= Unwrap(st.check_point).round
    THEN [verify |-> FALSE, check_point |-> st.check_point]
    ELSE IF IsSome(st.check_point) /\ st.secure
    THEN [verify |-> TRUE, check_point |-> st.check_point]
    ELSE [verify |-> FALSE, check_point |-> Some(r)]

\* a slip of the policy of boot: without determinism the latest round is
\* always taken as check_point
policy_boot_always_assumed(st, latest) ==
    IF st.determinism /\ ~IsSome(st.check_point) THEN "reestablish"
    ELSE IF st.determinism THEN "continued"
    ELSE "assumed"

\* the match of Http::boot_phase2 on (state.determinism, state.check_point.take())
policy_boot(st, latest) ==
    IF st.determinism /\ ~IsSome(st.check_point) THEN "reestablish"
    ELSE IF st.determinism THEN "continued"
    ELSE IF st.secure THEN "assumed"
    ELSE "none"

\* Endpoints::boot_validate_info
boot_validate_info(this, other) ==
    IF this.public_key # other.public_key THEN "Invalid"
    ELSE IF this.hash # other.hash THEN "Invalid"
    ELSE "Ok"

\* Endpoints::boot_validate_latest
boot_validate_latest(this, other) ==
    IF this.round # other.round THEN "Invalid"
    ELSE IF this.randomness # other.randomness THEN "Invalid"
    ELSE IF this.signature # other.signature THEN "Invalid"
    ELSE IF this.previous_signature # other.previous_signature THEN "Invalid"
    ELSE "Ok"

\* a slip of the filter: an average of exactly MAX_ELAPSED is still eligible
Eligible_inclusive(eps) == {i \in DOMAIN eps : to_elapsed(eps[i]) <= MAX_ELAPSED}

\* the endpoints with avg_elapsed < MAX_ELAPSED
Eligible(eps) == {i \in DOMAIN eps : to_elapsed(eps[i]) < MAX_ELAPSED}

\* the first of S in the order of endpoints.sort_by (stable: ties keep the index order)
Fastest(eps, S) ==
    CHOOSE i \in S : \A j \in S :
        \/ to_elapsed(eps[i]) < to_elapsed(eps[j])
        \/ (to_elapsed(eps[i]) = to_elapsed(eps[j]) /\ i <= j)

\* Endpoints::get_endpoint_pair: the indices of the (up to) two fastest eligible
get_endpoint_pair(eps) ==
    IF Eligible(eps) = {} THEN <<>>
    ELSE LET i == Fastest(eps, Eligible(eps))
         IN  IF Eligible(eps) \ {i} = {} THEN <<i>>
             ELSE <<i, Fastest(eps, Eligible(eps) \ {i})>>

----------------------------------------------------------------------------
(* The client: add_endpoint, boot and get on the pool                      *)

\* configured check_points (Config.check_point, through Random::from_round)
CfgCheckPoints == {None} \cup {Some(Honest(k)) : k \in 1..(MaxRound - 1)}

\* Endpoints::new(cfg): the state from the configuration, no endpoint
Init ==
    /\ state \in {StateFrom(cp, d, sec) :
                    cp \in CfgCheckPoints, d \in BOOLEAN, sec \in BOOLEAN}
    /\ endpoints = <<>>
    /\ pc = "idle"
    /\ call = CallIdle
    /\ result = ResultNone
    /\ http_log = {}
    /\ test = TestIdle

\* the locals of a call that starts
CallStart(op) ==
    [CallIdle EXCEPT !.op = op, !.boots = call.boots, !.booted = call.booted]

\* the locals after a boot that returned Ok: the client is booted
CallBooted == [CallStart("none") EXCEPT !.booted = TRUE]

\* the call returns kind (and value) to the caller
Return(op, kind, value) ==
    /\ result' = [op |-> op, kind |-> kind, value |-> value]
    /\ pc' = "idle"

\* Endpoints::add_endpoint: every kind pushes Inner::Http(Http::new_drand_api());
\* the pool is filled before the client's first call
AddEndpoint ==
    /\ pc = "idle"
    /\ result = ResultNone
    /\ Len(endpoints) < NumEndpoints
    /\ endpoints' = Append(endpoints, <<>>)
    /\ UNCHANGED <<state, pc, call, result, http_log, test>>

\* a slip of the match of boot: the empty pool is reported as Fatal
boot_len_fatal(n) ==
    IF n = 0 THEN "Fatal" ELSE IF n = 1 THEN "one" ELSE "tail"

\* a slip of the match of boot: the tail is not validated
boot_len_no_tail(n) ==
    IF n = 0 THEN "Invalid" ELSE "one"

\* match self.endpoints.len() of Endpoints::boot: no endpoint is Invalid, one
\* endpoint boots alone, more boot with a tail
boot_len(n) ==
    IF n = 0 THEN "Invalid" ELSE IF n = 1 THEN "one" ELSE "tail"

\* Endpoints::boot up to the end of endpoint 0's boot_phase1, which works on
\* self.endpoints[0] in place
Boot ==
    /\ pc = "idle"
    /\ call.boots < MaxBoots
    /\ \E rot \in {None, Some(CHAIN_HASH), Some(OTHER_HASH)} :
        IF Len(endpoints) = 0
        THEN /\ Return("boot", boot_len(0), None)
             /\ call' = [CallStart("none") EXCEPT !.boots = @ + 1]
             /\ http_log' = {}
             /\ UNCHANGED <<state, endpoints, test>>
        ELSE \E iout \in InfoOutcomes, lout \in Outcomes :
            LET p == boot_phase1(endpoints[1], rot, iout, lout)
                started == [CallStart("boot") EXCEPT !.boots = @ + 1, !.rot = rot]
                ended == [CallStart("none") EXCEPT !.boots = @ + 1]
            IN  /\ endpoints' = [endpoints EXCEPT ![1] = p.es]
                /\ http_log' = {Req(1, k, 0) : k \in p.reqs}
                /\ IF p.kind = "panic"
                   THEN /\ pc' = "panicked"
                        /\ call' = started
                        /\ UNCHANGED result
                   ELSE IF p.kind # "Ok"
                   THEN /\ Return("boot", p.kind, None)
                        /\ call' = ended
                   ELSE /\ call' = [started EXCEPT !.info = p.info, !.latest = p.latest]
                        /\ pc' = IF boot_len(Len(endpoints)) = "one"
                                 THEN "boot_phase2" ELSE "boot_tail"
                        /\ UNCHANGED result
                /\ UNCHANGED <<state, test>>

\* the answers to a tail endpoint's /public/latest: the round itself is dropped
TailLatestOutcomes ==
    {o \in Outcomes : o.tag # "Ok" \/ o.r = Some(Honest(1))}

\* one future of the tail of Endpoints::boot, on a clone of the endpoint:
\* boot_phase1, boot_validate_info, get(State::default(), latest.round),
\* boot_validate_latest
tail_task(es, rot, info, latest, iout, lout, gout) ==
    LET p == boot_phase1(es, rot, iout, lout)
        g == do_get(p.es, gout)
    IN  IF p.kind # "Ok"
        THEN [kind |-> p.kind, info |-> None, r |-> None, reqs |-> p.reqs]
        ELSE IF boot_validate_info(info, Unwrap(p.info)) # "Ok"
        THEN [kind |-> "Invalid", info |-> p.info, r |-> None, reqs |-> p.reqs]
        ELSE IF g.kind # "Ok"
        THEN [kind |-> g.kind, info |-> p.info, r |-> None,
              reqs |-> p.reqs \cup {"round"}]
        ELSE IF boot_validate_latest(latest, Unwrap(g.r)) # "Ok"
        THEN [kind |-> "Invalid", info |-> p.info, r |-> g.r,
              reqs |-> p.reqs \cup {"round"}]
        ELSE [kind |-> "Ok", info |-> p.info, r |-> g.r,
              reqs |-> p.reqs \cup {"round"}]

\* the requests a tail task issued
tail_reqs(j, t, latest) ==
    {Req(j, k, IF k = "round" THEN latest.round ELSE 0) : k \in t.reqs}

\* futures::future::join_all(tail).await, one future at a time: the futures
\* share nothing, and their results are dropped
BootTail ==
    /\ pc = "boot_tail"
    /\ LET j == Len(call.tail) + 2
       IN  \E iout \in InfoOutcomes, lout \in TailLatestOutcomes, gout \in Outcomes :
            LET t == tail_task(endpoints[j], call.rot, Unwrap(call.info),
                               Unwrap(call.latest), iout, lout, gout)
            IN  /\ http_log' = http_log \cup tail_reqs(j, t, Unwrap(call.latest))
                /\ IF t.kind = "panic"
                   THEN /\ pc' = "panicked"
                        /\ UNCHANGED call
                   ELSE /\ call' = [call EXCEPT !.tail =
                                        Append(@, [kind |-> t.kind, info |-> t.info,
                                                   r |-> t.r])]
                        /\ pc' = IF j = Len(endpoints) THEN "boot_phase2" ELSE "boot_tail"
    /\ UNCHANGED <<state, endpoints, result, test>>

\* the rest of Endpoints::boot: self.state.info = info, then boot_phase2 on
\* endpoint 0 in place, up to its return or to the start of its sweep
BootPhase2 ==
    /\ pc = "boot_phase2"
    /\ LET st == [state EXCEPT !.info = Unwrap(call.info)]
           latest == Unwrap(call.latest)
           mode == policy_boot(st, latest)
       IN  IF mode = "reestablish"
           THEN \E out \in Outcomes :
                LET d == do_get(endpoints[1], out)
                IN  /\ endpoints' = [endpoints EXCEPT ![1] = d.es]
                    /\ http_log' = http_log \cup {Req(1, "round", 1)}
                    /\ state' = st
                    /\ IF d.kind = "panic"
                       THEN pc' = "panicked" /\ UNCHANGED <<call, result>>
                       ELSE IF d.kind # "Ok"
                       THEN Return("boot", d.kind, None) /\ call' = CallStart("none")
                       ELSE /\ call' = [call EXCEPT !.st = [st EXCEPT !.check_point = None],
                                                    !.prev = d.r, !.r = call.latest,
                                                    !.ret = "boot_phase2"]
                            /\ pc' = "verify_head"
                            /\ UNCHANGED result
           ELSE IF mode = "continued"
           THEN /\ call' = [call EXCEPT !.st = [st EXCEPT !.check_point = None],
                                        !.prev = st.check_point, !.r = call.latest,
                                        !.ret = "boot_phase2"]
                /\ pc' = "verify_head"
                /\ state' = st
                /\ UNCHANGED <<endpoints, http_log, result>>
           ELSE /\ state' = [st EXCEPT !.check_point =
                                IF mode = "assumed" THEN Some(latest) ELSE None]
                /\ Return("boot", "Ok", None)
                /\ call' = CallBooted
                /\ UNCHANGED <<endpoints, http_log>>
    /\ UNCHANGED test

\* the endpoint the running task works on: endpoint 0 of the pool in
\* boot_phase2, the task's clone in get
CurEp == IF call.ret = "boot_phase2" THEN 1 ELSE call.sel[Len(call.res) + 1]

CurEs == IF call.ret = "boot_phase2" THEN endpoints[1] ELSE call.ep

\* the task's endpoint becomes es
SetEs(es) ==
    IF call.ret = "boot_phase2"
    THEN endpoints' = [endpoints EXCEPT ![1] = es]
    ELSE UNCHANGED endpoints

\* the rounds a caller asks for: the latest, a round of the chain, or 0
GetRounds == {None} \cup {Some(n) : n \in 0..MaxRound}

\* a slip of the end of Http::get: the State returned is a fresh default one
get_state_default(st, check_point) ==
    [StateDefault EXCEPT !.check_point = check_point]

\* the end of Http::get: state.check_point = Some(check_point); Ok((state, r))
get_state(st, check_point) == [st EXCEPT !.check_point = check_point]

\* Endpoints::get: the call starts
Get ==
    /\ pc = "idle"
    /\ \E round \in GetRounds :
          call' = [CallStart("get") EXCEPT !.round = round]
    /\ pc' = "get_loop"
    /\ http_log' = {}
    /\ UNCHANGED <<state, endpoints, result, test>>

\* the head of the loop of Endpoints::get: get_endpoint_pair clones the (up
\* to) two endpoints to use; none is Fatal
GetLoop ==
    /\ pc = "get_loop"
    /\ IF get_endpoint_pair(endpoints) = <<>>
       THEN /\ Return("get", "Fatal", None)
            /\ call' = CallStart("none")
       ELSE /\ call' = [call EXCEPT !.sel = get_endpoint_pair(endpoints), !.res = <<>>]
            /\ pc' = "http_get"
            /\ UNCHANGED result
    /\ UNCHANGED <<state, endpoints, http_log, test>>

\* the task of the running endpoint ended with kind (and state st, round r)
TaskDone(kind, st, r) ==
    /\ call' = [call EXCEPT !.res = Append(@, [kind |-> kind, st |-> st, r |-> r]),
                            !.ep = <<>>, !.st = StateDefault, !.r = None,
                            !.prev = None, !.ret = "none", !.fails = 0]
    /\ pc' = IF Len(call.res) + 1 = Len(call.sel) THEN "get_join" ELSE "http_get"

\* a slip of the race: the second task goes on from the State of the first
task_state_shared(st, res) == IF res = <<>> THEN st ELSE res[1].st

\* the State a task of Endpoints::get is given: self.state.clone(); res are
\* the results of the tasks that ran before it
task_state(st, res) == st

\* Http::get of the next selected endpoint, on clones of the endpoint and of
\* the state: do_get, then the policy, up to its return or the start of its sweep
HttpGet ==
    /\ pc = "http_get"
    /\ LET e == call.sel[Len(call.res) + 1]
       IN  \E out \in Outcomes :
            LET d == do_get(endpoints[e], out)
                st == task_state(state, call.res)
                pol == policy_get(st, call.round, Unwrap(d.r))
            IN  /\ http_log' = http_log \cup {RoundReq(e, call.round)}
                /\ IF d.kind = "panic"
                   THEN pc' = "panicked" /\ UNCHANGED call
                   ELSE IF d.kind # "Ok"
                   THEN TaskDone(d.kind, st, None)
                   ELSE IF pol.verify
                   THEN /\ call' = [call EXCEPT !.ep = d.es,
                                                !.st = [st EXCEPT !.check_point = None],
                                                !.prev = pol.check_point, !.r = d.r,
                                                !.ret = "http_get"]
                        /\ pc' = "verify_head"
                   ELSE TaskDone("Ok", get_state(st, pol.check_point), d.r)
    /\ UNCHANGED <<state, endpoints, result, test>>

\* a slip of the match: of two successes the lower round is preferred
Winner_lower_round(res) ==
    IF Len(res) = 1 THEN 1
    ELSE IF res[1].kind = "Ok" /\ res[2].kind = "Ok"
    THEN (IF Unwrap(res[1].r).round > Unwrap(res[2].r).round THEN 2 ELSE 1)
    ELSE IF res[1].kind = "Ok" THEN 1
    ELSE IF res[2].kind = "Ok" THEN 2
    ELSE 0

\* the index of the task whose result the match of Endpoints::get breaks
\* with, 0 when both failed
Winner(res) ==
    IF Len(res) = 1 THEN 1
    ELSE IF res[1].kind = "Ok" /\ res[2].kind = "Ok"
    THEN (IF Unwrap(res[1].r).round > Unwrap(res[2].r).round THEN 1 ELSE 2)
    ELSE IF res[1].kind = "Ok" THEN 1
    ELSE IF res[2].kind = "Ok" THEN 2
    ELSE 0

\* the match on the results of the tasks: the winner's state is installed and
\* its round returned; a single endpoint's error is returned; two errors loop
GetJoin ==
    /\ pc = "get_join"
    /\ LET w == Winner(call.res)
       IN  IF w = 0
           THEN /\ pc' = "get_loop"
                /\ call' = [call EXCEPT !.sel = <<>>, !.res = <<>>]
                /\ UNCHANGED <<state, result>>
           ELSE IF call.res[w].kind # "Ok"
           THEN /\ Return("get", call.res[w].kind, None)
                /\ call' = CallStart("none")
                /\ UNCHANGED <<state>>
           ELSE /\ state' = call.res[w].st
                /\ Return("get", "Ok", call.res[w].r)
                /\ call' = CallStart("none")
    /\ UNCHANGED <<endpoints, http_log, test>>

\* Http::verify returns kind to boot_phase2 (which returns it to boot) or to
\* Http::get (whose task ends)
VerifyReturn(kind) ==
    IF call.ret = "boot_phase2"
    THEN /\ Return("boot", kind, None)
         /\ IF kind = "Ok"
            THEN /\ state' = [call.st EXCEPT !.check_point = call.r]
                 /\ call' = CallBooted
            ELSE /\ call' = CallStart("none")
                 /\ UNCHANGED state
    ELSE /\ IF kind = "Ok"
            THEN TaskDone("Ok", get_state(call.st, call.r), call.r)
            ELSE TaskDone(kind, call.st, None)
         /\ UNCHANGED <<state, result>>

\* while prev.round < till.round: the test of the loop of Http::verify
VerifyHead ==
    /\ pc = "verify_head"
    /\ IF Unwrap(call.prev).round < Unwrap(call.r).round
       THEN /\ pc' = "verify_body"
            /\ UNCHANGED <<state, call, result>>
       ELSE VerifyReturn("Ok")
    /\ UNCHANGED <<endpoints, http_log, test>>

\* what a fetch of the sweep can come to; its three errors are one arm
SweepOutcomes == {o \in Outcomes : o.tag \in {"Ok", "IOError"}}

\* the walk over the results of join_all: latencies and penalties are pushed,
\* and until a fetch failed each round is checked against prev and becomes prev
RECURSIVE Walk(_, _, _, _, _)
Walk(pk, es, prev, err, items) ==
    IF items = <<>> THEN [es |-> es, prev |-> prev, kind |-> "cont"]
    ELSE LET item == Head(items)
             pushed == add_elapsed(es, item.elapsed)
             vc == verify_chain(pk, prev.signature, Unwrap(item.r))
         IN  IF item.tag # "Ok"
             THEN IF MulOverflows(to_elapsed(es))
                  THEN [es |-> es, prev |-> prev, kind |-> "panic"]
                  ELSE Walk(pk, add_elapsed(es, penalty(es)), prev, TRUE, Tail(items))
             ELSE IF err THEN Walk(pk, pushed, prev, err, Tail(items))
             ELSE IF vc = "true" THEN Walk(pk, pushed, Unwrap(item.r), err, Tail(items))
             ELSE IF vc = "panic" THEN [es |-> pushed, prev |-> prev, kind |-> "panic"]
             ELSE [es |-> pushed, prev |-> prev, kind |-> "NotSecure"]

\* a slip of the window: the rounds up to till are all fetched in one pass
SweepRounds_unbatched(prev, till) == (prev.round + 1)..(till.round - 1)

\* the rounds one pass of the loop fetches: (prev.round + 1)..till_round
SweepRounds(prev, till) ==
    LET till_round == IF prev.round + VERIFY_BATCH < till.round
                      THEN prev.round + VERIFY_BATCH ELSE till.round
    IN  (prev.round + 1)..(till_round - 1)

\* one pass of the loop of Http::verify: the rounds of the window are fetched
\* together, then walked in order
VerifyBody ==
    /\ pc = "verify_body"
    /\ LET prev == Unwrap(call.prev)
           rounds == SweepRounds(prev, Unwrap(call.r))
       IN  \E f \in [rounds -> SweepOutcomes] :
            LET items == [i \in 1..Cardinality(rounds) |-> f[prev.round + i]]
                nfail == Cardinality({n \in rounds : f[n].tag # "Ok"})
                w == Walk(call.st.info.public_key, CurEs, prev, FALSE, items)
            IN  /\ call.fails + nfail <= MaxSweepFailures
                /\ http_log' = http_log \cup {Req(CurEp, "round", n) : n \in rounds}
                /\ IF w.kind = "panic"
                   THEN /\ pc' = "panicked"
                        /\ UNCHANGED <<state, endpoints, call, result>>
                   ELSE IF w.kind = "NotSecure"
                   THEN /\ SetEs(w.es)
                        /\ VerifyReturn("NotSecure")
                   ELSE /\ SetEs(w.es)
                        /\ call' = [call EXCEPT !.prev = Some(w.prev),
                                                !.fails = @ + nfail,
                                                !.ep = IF call.ret = "boot_phase2"
                                                       THEN @ ELSE w.es]
                        /\ pc' = "verify_head"
                        /\ UNCHANGED <<state, result>>
    /\ UNCHANGED test

Next ==
    \/ AddEndpoint
    \/ Boot
    \/ BootTail
    \/ BootPhase2
    \/ Get
    \/ GetLoop
    \/ HttpGet
    \/ GetJoin
    \/ VerifyHead
    \/ VerifyBody

Spec == Init /\ [][Next]_vars

\* a call that has started runs on: the executor polls the future of boot or
\* get until it returns, and the network answers every request
Running ==
    \/ BootTail
    \/ BootPhase2
    \/ GetLoop
    \/ HttpGet
    \/ GetJoin
    \/ VerifyHead
    \/ VerifyBody

FairSpec == Spec /\ WF_vars(Running)

----------------------------------------------------------------------------
(* The latency window on its own (http_test.rs test_elapsed): pushes of    *)
(* measured latencies and of failure penalties onto one endpoint.          *)

\* n samples, all equal to a
Fill(n, a) == [i \in 1..n |-> a]

\* n samples, the i-th equal to i
Ramp(n) == [i \in 1..n |-> i]

\* latencies a request can take: short ones, 24 hours, and more than 24 hours
Latencies == {1, 10 * TicksPerSec, MAX_ELAPSED, MAX_ELAPSED + 1}

\* windows an endpoint can hold when the behaviour starts
WindowInits ==
    {<<>>} \cup {Fill(n, a) : n \in {1, MAX_ELAPSED_WINDOW - 1, MAX_ELAPSED_WINDOW},
                             a \in Latencies}
           \cup {Ramp(n) : n \in {MAX_ELAPSED_WINDOW - 1, MAX_ELAPSED_WINDOW}}

InitWindow ==
    /\ state = StateDefault
    /\ endpoints \in {<<es>> : es \in WindowInits}
    /\ pc = "test"
    /\ call = CallIdle
    /\ result = ResultNone
    /\ http_log = {}
    /\ test = TestIdle

\* add_elapsed!, Ok arm: the measured latency is pushed
ElapsedOk ==
    /\ pc = "test"
    /\ test.k < MaxPushes
    /\ \E elapsed \in Latencies :
          endpoints' = [endpoints EXCEPT ![1] = add_elapsed(@, elapsed)]
    /\ test' = [test EXCEPT !.k = @ + 1, !.res = "ok"]
    /\ UNCHANGED <<state, pc, call, result, http_log>>

\* add_elapsed!, Err arm: the penalty is pushed; the doubling panics on overflow
ElapsedErr ==
    /\ pc = "test"
    /\ test.k < MaxPushes
    /\ IF MulOverflows(to_elapsed(endpoints[1]))
       THEN /\ pc' = "panicked"
            /\ UNCHANGED endpoints
       ELSE /\ endpoints' = [endpoints EXCEPT ![1] = add_elapsed(@, penalty(@))]
            /\ pc' = pc
    /\ test' = [test EXCEPT !.k = @ + 1, !.res = "err"]
    /\ UNCHANGED <<state, call, result, http_log>>

NextWindow == ElapsedOk \/ ElapsedErr

SpecWindow == InitWindow /\ [][NextWindow]_vars

----------------------------------------------------------------------------
(* test_elapsed: a window is filled with a, then b is pushed as many times *)

SatPairs ==
    {p \in {1, 10 * TicksPerSec}
           \X {2, 11, 33, 10 * TicksPerSec + 32, MAX_ELAPSED} : p[1] < p[2]}

InitSaturation ==
    /\ state = StateDefault
    /\ endpoints = <<(<<>>)>>
    /\ pc = "test"
    /\ call = CallIdle
    /\ result = ResultNone
    /\ http_log = {}
    /\ test \in {[a |-> p[1], b |-> p[2], k |-> 0, res |-> "none"] : p \in SatPairs}

\* for _ in 0..MAX_ELAPSED_WINDOW { endp.add_elapsed(a) }
TestFill ==
    /\ pc = "test"
    /\ test.k < MAX_ELAPSED_WINDOW
    /\ endpoints' = [endpoints EXCEPT ![1] = add_elapsed(@, test.a)]
    /\ test' = [test EXCEPT !.k = @ + 1, !.res = "ok"]
    /\ UNCHANGED <<state, pc, call, result, http_log>>

\* endp.add_elapsed(b), MAX_ELAPSED_WINDOW times
TestSaturate ==
    /\ pc = "test"
    /\ test.k >= MAX_ELAPSED_WINDOW
    /\ test.k < 2 * MAX_ELAPSED_WINDOW
    /\ endpoints' = [endpoints EXCEPT ![1] = add_elapsed(@, test.b)]
    /\ test' = [test EXCEPT !.k = @ + 1, !.res = "ok"]
    /\ UNCHANGED <<state, pc, call, result, http_log>>

NextSaturation == TestFill \/ TestSaturate

SpecSaturation == InitSaturation /\ [][NextSaturation]_vars

----------------------------------------------------------------------------
(* C8: the window holds at most MAX_ELAPSED_WINDOW samples after every     *)
(* push, and a push onto a full window evicts exactly the oldest sample    *)
(* and keeps the order of the others; a push onto a window that is not     *)
(* full keeps every sample and appends.                                    *)
C8_WindowFifo ==
    /\ [](\A i \in DOMAIN endpoints : Len(endpoints[i]) <= MAX_ELAPSED_WINDOW)
    /\ [][\A i \in DOMAIN endpoints :
            test'.k = test.k + 1 /\ pc' = "test" =>
              LET es == endpoints[i]
                  es2 == endpoints'[i]
              IN  IF Len(es) = MAX_ELAPSED_WINDOW
                  THEN /\ Len(es2) = MAX_ELAPSED_WINDOW
                       /\ \A j \in 1..(MAX_ELAPSED_WINDOW - 1) : es2[j] = es[j + 1]
                  ELSE /\ Len(es2) = Len(es) + 1
                       /\ \A j \in 1..Len(es) : es2[j] = es[j]]_vars

\* a full ramp 1..32 has been pushed onto: its last sample moved down by the
\* number of pushes and its first samples are gone
C8_Witness ==
    /\ test.k >= 2
    /\ Len(endpoints[1]) = MAX_ELAPSED_WINDOW
    /\ endpoints[1][MAX_ELAPSED_WINDOW - test.k] = MAX_ELAPSED_WINDOW
    /\ endpoints[1][1] = test.k + 1

(* C9 as stated: the average of every endpoint is at most MAX_ELAPSED in   *)
(* every reachable state, the endpoint without a sample included.          *)
C9_Original ==
    \A i \in DOMAIN endpoints : to_elapsed(endpoints[i]) <= MAX_ELAPSED

(* C9 amended: an endpoint without a sample reports the sentinel, which is *)
(* above MAX_ELAPSED; an endpoint whose samples are all at most            *)
(* MAX_ELAPSED has an average of at most MAX_ELAPSED; and every failure    *)
(* penalty that is pushed is at most MAX_ELAPSED.                          *)
C9_AvgBounded ==
    \A i \in DOMAIN endpoints :
        LET es == endpoints[i]
        IN  /\ es = <<>> => to_elapsed(es) > MAX_ELAPSED
            /\ (es # <<>> /\ \A j \in 1..Len(es) : es[j] <= MAX_ELAPSED)
                  => to_elapsed(es) <= MAX_ELAPSED
            /\ (test.res = "err" /\ pc = "test") => es[Len(es)] <= MAX_ELAPSED

\* a penalty was pushed onto a window of 24-hour samples and was capped
C9_Witness ==
    /\ test.res = "err"
    /\ pc = "test"
    /\ Len(endpoints[1]) = MAX_ELAPSED_WINDOW
    /\ to_elapsed(endpoints[1]) = MAX_ELAPSED

\* the number of samples of b pushed onto the window filled with a
SatK == test.k - MAX_ELAPSED_WINDOW

(* C10 as stated: after k pushes of b > a onto 32 samples of a the average *)
(* is a for k = 0, strictly between a and b for 1 <= k <= 31, b for k = 32 *)
C10_Original ==
    test.k >= MAX_ELAPSED_WINDOW =>
        LET avg == to_elapsed(endpoints[1])
        IN  /\ SatK = 0 => avg = test.a
            /\ (1 <= SatK /\ SatK < MAX_ELAPSED_WINDOW) => (test.a < avg /\ avg < test.b)
            /\ SatK = MAX_ELAPSED_WINDOW => avg = test.b

(* C10 amended: the average is a for k = 0 and b for k = 32; for           *)
(* 1 <= k <= 31 it is a + (k * (b - a)) / 32 truncated to a whole tick, so *)
(* at least a and strictly below b, and above a exactly when               *)
(* k * (b - a) is at least 32 ticks.                                       *)
C10_Saturation ==
    test.k >= MAX_ELAPSED_WINDOW =>
        LET avg == to_elapsed(endpoints[1])
        IN  /\ SatK = 0 => avg = test.a
            /\ (1 <= SatK /\ SatK < MAX_ELAPSED_WINDOW) =>
                  /\ test.a <= avg
                  /\ avg < test.b
                  /\ avg = test.a + (SatK * (test.b - test.a)) \div MAX_ELAPSED_WINDOW
                  /\ (avg > test.a) <=> (SatK * (test.b - test.a) >= MAX_ELAPSED_WINDOW)
            /\ SatK = MAX_ELAPSED_WINDOW => avg = test.b

\* the window is saturated with b after 32 pushes
C10_Witness ==
    /\ SatK = MAX_ELAPSED_WINDOW
    /\ test.b = MAX_ELAPSED
    /\ to_elapsed(endpoints[1]) = MAX_ELAPSED

----------------------------------------------------------------------------
(* The contract of the pool: boot and get                                  *)

\* the step on which Endpoints::get returns to its caller
GetReturns == call.op = "get" /\ pc # "idle" /\ pc' = "idle"

\* the step on which Endpoints::boot returns Ok to its caller
BootReturnsOk ==
    call.op = "boot" /\ pc' = "idle" /\ result'.op = "boot" /\ result'.kind = "Ok"

\* the last call was a get of a booted client that returned a Random
GotRandom == call.booted /\ result.op = "get" /\ result.kind = "Ok"

(* C1: on a booted pool no get, successful or failed, leaves the round of  *)
(* check_point lower than it was before the call.                          *)
C1_CheckPointMonotone ==
    [][(GetReturns /\ call.booted /\ IsSome(state.check_point))
          => /\ IsSome(state'.check_point)
             /\ Unwrap(state'.check_point).round >= Unwrap(state.check_point).round]_vars

(* C2: a boot of a pool of two or more endpoints returns Ok only if every  *)
(* tail endpoint reported the public_key and hash of endpoint 0 and        *)
(* returned, for the round of endpoint 0's latest, a round equal to it in  *)
(* all four fields.                                                        *)
C2_BootAgreement ==
    [][(BootReturnsOk /\ Len(endpoints) >= 2)
          => \A j \in DOMAIN call.tail :
                /\ IsSome(call.tail[j].info)
                /\ Unwrap(call.tail[j].info).public_key = Unwrap(call.info).public_key
                /\ Unwrap(call.tail[j].info).hash = Unwrap(call.info).hash
                /\ IsSome(call.tail[j].r)
                /\ Unwrap(call.tail[j].r) = Unwrap(call.latest)]_vars

(* C3: with secure = true, every Random a successful get returns passes    *)
(* the signature check of verify_chain under the booted info.public_key.   *)
C3_SecureVerified ==
    (GotRandom /\ state.secure)
        => BLSVerify(state.info.public_key, Unwrap(result.value).round,
                     Unwrap(result.value).previous_signature,
                     Unwrap(result.value).signature)

(* C4: every get that was called eventually ends: it returns a Random or   *)
(* an error to its caller (or the thread unwinds).                         *)
C4_GetReturns ==
    (call.op = "get" /\ pc = "get_loop") ~> (pc \in {"idle", "panicked"})

(* C5: in determinism mode, when two successive gets of one booted client  *)
(* deliver rounds k and k + 1, the later round's previous_signature is the *)
(* earlier round's signature.                                              *)
C5_DeliveredChain ==
    [][(GetReturns /\ state.determinism /\ GotRandom /\ result'.kind = "Ok"
            /\ Unwrap(result'.value).round = Unwrap(result.value).round + 1)
          => Unwrap(result'.value).previous_signature
                = Unwrap(result.value).signature]_vars

(* C6: every Random get returns has randomness = SHA-256(signature).       *)
C6_RandomnessIsHash ==
    (result.op = "get" /\ result.kind = "Ok")
        => Unwrap(result.value).randomness = Sha256(Unwrap(result.value).signature)

\* a get for an explicit round at or below the check_point returns from the
\* endpoint it selected
ShortCircuitReturns ==
    /\ GetReturns
    /\ pc = "get_join"
    /\ IsSome(call.round)
    /\ IsSome(state.check_point)
    /\ Unwrap(call.round) <= Unwrap(state.check_point).round

(* C7, as stated: a get for an explicit round n at or below the round of   *)
(* check_point issues no HTTP request for round n and leaves check_point   *)
(* unchanged.                                                              *)
C7_Original ==
    [][(ShortCircuitReturns /\ call.booted)
          => /\ \A e \in DOMAIN endpoints :
                    Req(e, "round", Unwrap(call.round)) \notin http_log'
             /\ state'.check_point = state.check_point]_vars

(* C7, amended: a get for an explicit round n at or below the round of     *)
(* check_point leaves the State of the pool unchanged and runs no sweep:   *)
(* its only HTTP requests are the requests for round n itself, at least    *)
(* one is issued, and a Random it returns is the response to that request, *)
(* whatever its round.                                                     *)
C7_ShortCircuit ==
    [][ShortCircuitReturns
          => /\ state' = state
             /\ http_log' # {}
             /\ http_log' \subseteq
                    {Req(e, "round", Unwrap(call.round)) : e \in DOMAIN endpoints}
             /\ (result'.kind = "Ok" =>
                    \E i \in DOMAIN call.res : call.res[i].r = result'.value)]_vars

\* a get for round n at or below the check_point returned a Random that is
\* not the check_point; the request for round n is on the log
C7_Witness ==
    /\ GotRandom
    /\ IsSome(state.check_point)
    /\ Unwrap(result.value) # Unwrap(state.check_point)
    /\ \E n \in Rounds :
          /\ n <= Unwrap(state.check_point).round
          /\ http_log = {Req(1, "round", n)}

(* C11: a boot of a pool to which no endpoint was added returns Invalid,   *)
(* issues no HTTP request and leaves the State of the pool unchanged.      *)
C11_BootEmptyPool ==
    [][(pc = "idle" /\ Len(endpoints) = 0 /\ call'.boots = call.boots + 1)
          => /\ pc' = "idle"
             /\ result' = [op |-> "boot", kind |-> "Invalid", value |-> None]
             /\ http_log' = {}
             /\ state' = state]_vars

\* boot returned on a pool without endpoints
C11_Witness ==
    /\ Len(endpoints) = 0
    /\ call.boots = 1
    /\ result.op = "boot"
    /\ pc = "idle"

(* C12: a get of a client that has not been successfully booted returns   *)
(* Fatal, whether or not endpoints were added to the pool.                 *)
C12_UnbootedGetFatal ==
    [][(GetReturns /\ ~call.booted) => result'.kind = "Fatal"]_vars

----------------------------------------------------------------------------
(* Http::boot_phase1 on its own (http_test.rs test_boot_phase1): one call  *)
(* on one endpoint, for every root of trust and every pair of answers.     *)

\* the roots of trust a caller passes
Rots == {None, Some(CHAIN_HASH), Some(OTHER_HASH)}

\* the windows of the endpoint before the call: new, or with samples
Phase1Windows == {<<>>, <<TicksPerSec>>, Fill(MAX_ELAPSED_WINDOW, TicksPerSec)}

InitPhase1 ==
    /\ state = StateDefault
    /\ endpoints \in {<<es>> : es \in Phase1Windows}
    /\ pc = "test"
    /\ call = CallIdle
    /\ result = ResultNone
    /\ http_log = {}
    /\ test \in {[rot |-> rot, iout |-> iout, lout |-> lout, res |-> "none"] :
                    rot \in Rots, iout \in InfoOutcomes, lout \in Outcomes}

\* rt.block_on(endp.boot_phase1(rot, None))
TestBootPhase1 ==
    /\ pc = "test"
    /\ test.res = "none"
    /\ LET p == boot_phase1(endpoints[1], test.rot, test.iout, test.lout)
       IN  /\ endpoints' = [endpoints EXCEPT ![1] = p.es]
           /\ test' = [test EXCEPT !.res = p.kind]
           /\ call' = [call EXCEPT !.info = p.info, !.latest = p.latest]
           /\ http_log' = {Req(1, k, 0) : k \in p.reqs}
           /\ pc' = IF p.kind = "panic" THEN "panicked" ELSE "test"
    /\ UNCHANGED <<state, result>>

NextPhase1 == TestBootPhase1

SpecPhase1 == InitPhase1 /\ [][NextPhase1]_vars

\* boot_phase1 has answered a call whose /info request was answered with an Info
Phase1Decoded == test.res # "none" /\ test.iout.tag = "Ok"

(* C13: boot_phase1 called with a root of trust that differs from the      *)
(* fetched info.hash fails with NotSecure and returns no (Info, latest);   *)
(* called with None or with the fetched info.hash it does not fail with    *)
(* NotSecure.                                                              *)
C13_RootOfTrust ==
    Phase1Decoded =>
        IF IsSome(test.rot) /\ Unwrap(test.rot) # Unwrap(test.iout.r).hash
        THEN /\ test.res = "NotSecure"
             /\ call.info = None
             /\ call.latest = None
             /\ Req(1, "latest", 0) \notin http_log
        ELSE test.res # "NotSecure"

\* a call with a root of trust that is not the hash of the fetched Info
C13_Witness ==
    /\ Phase1Decoded
    /\ test.rot = Some(OTHER_HASH)
    /\ Unwrap(test.iout.r).hash = CHAIN_HASH
    /\ test.res = "NotSecure"

----------------------------------------------------------------------------
(* The two chain verifiers on their own (verify_test.rs test_verify): one  *)
(* call of each on a key, a previous signature and a round.                *)

\* verify_chain of util.rs, generic over Round: curr.as_previous_signature()
\* is an Option (psign); a missing one is Invalid, a broken link is Fatal, a
\* key that does not decode to 48 bytes panics (clone_from_slice), and the
\* pairing check is called with (signature, previous signature)
util_verify_chain(pk, prev, curr, psign) ==
    IF ~IsSome(psign) THEN "Invalid"
    ELSE IF prev.signature # Unwrap(psign) THEN "Fatal"
    ELSE IF pk = EMPTY_BYTES THEN "panic"
    ELSE IF BLSVerify(pk, curr.round, curr.signature, Unwrap(psign))
         THEN "true" ELSE "false"

\* the keys a caller passes: the group's, another, and Info::default()'s
ChainKeys == {GROUP_PK, OTHER_PK, EMPTY_BYTES}

\* the rounds a caller passes as predecessor: a served round, or round 0
\* whose signature is the group_hash
ChainPrevs == Randoms \cup {Random(0, EMPTY_BYTES, GROUP_HASH, EMPTY_BYTES)}

InitVerifyChain ==
    /\ state = StateDefault
    /\ endpoints = <<>>
    /\ pc = "test"
    /\ call = CallIdle
    /\ result = ResultNone
    /\ http_log = {}
    /\ test \in {[pk |-> pk, prev |-> prev, curr |-> curr, psign |-> psign,
                  res |-> "none", util_res |-> "none"] :
                    pk \in ChainKeys, prev \in ChainPrevs, curr \in Randoms,
                    psign \in BOOLEAN}

\* verify_chain(&pk, &prev.signature, &curr) of verify.rs
TestVerifyChain ==
    /\ pc = "test"
    /\ test.res = "none"
    /\ test.psign
    /\ test' = [test EXCEPT !.res = verify_chain(test.pk, test.prev.signature, test.curr)]
    /\ UNCHANGED <<state, endpoints, pc, call, result, http_log>>

\* verify_chain(&pk, &prev, &curr) of util.rs
TestUtilVerifyChain ==
    /\ pc = "test"
    /\ test.util_res = "none"
    /\ test' = [test EXCEPT !.util_res =
                    util_verify_chain(test.pk, test.prev, test.curr,
                                      IF test.psign
                                      THEN Some(test.curr.previous_signature)
                                      ELSE None)]
    /\ UNCHANGED <<state, endpoints, pc, call, result, http_log>>

NextVerifyChain == TestVerifyChain \/ TestUtilVerifyChain

SpecVerifyChain == InitVerifyChain /\ [][NextVerifyChain]_vars

(* C14: verify_chain called with a previous signature that differs from    *)
(* curr.previous_signature returns an error of kind NotSecure, in verify.rs *)
(* and in util.rs.                                                         *)
C14_MismatchNotSecure ==
    (test.psign /\ test.prev.signature # test.curr.previous_signature)
        => /\ test.res \in {"none", "NotSecure"}
           /\ test.util_res \in {"none", "NotSecure"}

----------------------------------------------------------------------------
(* The race of Endpoints::get: gets on a pool whose two endpoints both     *)
(* hold a latency sample, so that get_endpoint_pair returns a pair.        *)

\* the State of a client booted on the group's Info
RaceStates ==
    {[info |-> Info(GROUP_PK, CHAIN_HASH), check_point |-> cp,
      determinism |-> d, secure |-> sec, rate_limit |-> MAX_CONNS] :
        cp \in CfgCheckPoints, d \in BOOLEAN, sec \in BOOLEAN}

InitRace ==
    /\ state \in RaceStates
    /\ endpoints = <<(<<TicksPerSec>>), (<<TicksPerSec>>)>>
    /\ pc = "idle"
    /\ call = [CallIdle EXCEPT !.boots = 1, !.booted = TRUE]
    /\ result = ResultNone
    /\ http_log = {}
    /\ test = TestIdle

NextRace ==
    \/ Get
    \/ GetLoop
    \/ HttpGet
    \/ GetJoin
    \/ VerifyHead
    \/ VerifyBody

SpecRace == InitRace /\ [][NextRace]_vars

\* the two futures of futures::join! have ended
Raced == pc = "get_join" /\ Len(call.res) = 2

\* the match breaks with the (State, Random) of task i
BreaksWith(i) ==
    /\ pc' = "idle"
    /\ result' = [op |-> "get", kind |-> "Ok", value |-> call.res[i].r]
    /\ state' = call.res[i].st

(* C15: when get races two endpoints and exactly one succeeds, its (State, *)
(* Random) is the result; when both succeed the result is a response of    *)
(* the highest round, so that two responses with the same (round,          *)
(* signature) give a result with that (round, signature); the State        *)
(* installed is the State returned with the Random that is returned.       *)
C15_Race ==
    [][Raced =>
         LET ok == {i \in 1..2 : call.res[i].kind = "Ok"}
         IN  /\ \A i \in 1..2 : ok = {i} => BreaksWith(i)
             /\ ok = {1, 2} =>
                  \E i \in 1..2 :
                     /\ BreaksWith(i)
                     /\ \A j \in 1..2 : Unwrap(call.res[i].r).round
                                           >= Unwrap(call.res[j].r).round
             /\ (ok = {1, 2}
                   /\ Unwrap(call.res[1].r).round = Unwrap(call.res[2].r).round
                   /\ Unwrap(call.res[1].r).signature = Unwrap(call.res[2].r).signature)
                  => /\ Unwrap(result'.value).round = Unwrap(call.res[1].r).round
                     /\ Unwrap(result'.value).signature
                            = Unwrap(call.res[1].r).signature]_vars

\* a race of two endpoints returned a Random, which became the check_point
C15_Witness ==
    /\ pc = "idle"
    /\ result.op = "get"
    /\ result.kind = "Ok"
    /\ \E k1, k2 \in {"latest", "round"}, n1, n2 \in 0..MaxRound :
          {Req(1, k1, n1), Req(2, k2, n2)} \subseteq http_log
    /\ state.check_point = result.value

TailDisagrees ==
    \E j \in DOMAIN call.tail :
        \/ /\ IsSome(call.tail[j].info)
           /\ \/ Unwrap(call.tail[j].info).public_key # Unwrap(call.info).public_key
              \/ Unwrap(call.tail[j].info).hash # Unwrap(call.info).hash
        \/ /\ IsSome(call.tail[j].r)
           /\ Unwrap(call.tail[j].r) # Unwrap(call.latest)

(* C18: when, during boot, a tail endpoint's Info differs from endpoint    *)
(* 0's in public_key or hash, or its round numbered latest_0.round differs *)
(* from latest_0 in one of the four fields, boot fails with NotSecure.     *)
C18_TailMismatchNotSecure ==
    [][(call.op = "boot" /\ pc # "idle" /\ pc' = "idle" /\ TailDisagrees)
          => /\ result'.op = "boot"
             /\ result'.kind = "NotSecure"]_vars

\* Http::verify is at the test of its loop with rounds left up to till, and
\* till is not a round the booted key signed over its previous_signature
SweepToInvalidTill ==
    /\ pc = "verify_head"
    /\ Unwrap(call.prev).round < Unwrap(call.r).round
    /\ ~BLSVerify(call.st.info.public_key, Unwrap(call.r).round,
                  Unwrap(call.r).previous_signature, Unwrap(call.r).signature)

\* Http::verify has ended with an error (a failed link or fetch) or a panic
SweepFailed ==
    \/ pc = "panicked"
    \/ pc = "idle" /\ result.op = "boot" /\ result.kind # "Ok"
    \/ /\ pc \in {"http_get", "get_join"}
       /\ call.res # <<>>
       /\ call.res[Len(call.res)].kind # "Ok"

(* C19: a verify(from, till) applies verify_chain to every round from      *)
(* from.round + 1 through till.round, till included, and fails at the      *)
(* first invalid link: a sweep towards a till that is not validly signed   *)
(* ends with an error, it does not return Ok and does not go on for ever.  *)
C19_SweepChecksTill == SweepToInvalidTill ~> SweepFailed

----------------------------------------------------------------------------
(* The decoding of the JSON payloads: TryFrom<InfoJson> for Info and       *)
(* TryFrom<RandomJson> for Random.  A JSON string field is what matters of *)
(* it to hex::decode: whether it is well-formed hex, and the number of     *)
(* bytes it encodes; the decoded bytes are that many zero bytes.           *)

\* the lengths the specification fixes for the decoded fields
PK_LEN == 48

SIG_LEN == 96

RAND_LEN == 32

HASH_LEN == 32

\* a JSON string field
HexString(valid, len) == [valid |-> valid, len |-> len]

\* hex::decode
hex_decode(h) ==
    IF h.valid THEN [kind |-> "Ok", bytes |-> [i \in 1..h.len |-> 0]]
    ELSE [kind |-> "HexParse", bytes |-> EMPTY_BYTES]

\* Info::try_from(InfoJson): three hex::decode, each err_at!(HexParse, ..)?
try_from_info(val) ==
    LET public_key == hex_decode(val.public_key)
        hash == hex_decode(val.hash)
        group_hash == hex_decode(val.group_hash)
    IN  IF public_key.kind # "Ok" \/ hash.kind # "Ok" \/ group_hash.kind # "Ok"
        THEN [kind |-> "HexParse", value |-> None]
        ELSE [kind |-> "Ok",
              value |-> Some([public_key |-> public_key.bytes, hash |-> hash.bytes,
                              group_hash |-> group_hash.bytes])]

\* Random::try_from(RandomJson): three hex::decode, each err_at!(HexParse, ..)?
try_from_random(val) ==
    LET psign == hex_decode(val.previous_signature)
        randomness == hex_decode(val.randomness)
        signature == hex_decode(val.signature)
    IN  IF psign.kind # "Ok" \/ randomness.kind # "Ok" \/ signature.kind # "Ok"
        THEN [kind |-> "HexParse", value |-> None]
        ELSE [kind |-> "Ok",
              value |-> Some(Random(val.round, randomness.bytes, signature.bytes,
                                    psign.bytes))]

\* JSON string fields that should decode to n bytes: well-formed or not, of
\* the length or one byte short
HexStrings(n) == {HexString(v, l) : v \in BOOLEAN, l \in {n - 1, n}}

\* the bodies of /info
InfoJsons ==
    {[public_key |-> pk, hash |-> h, group_hash |-> g] :
        pk \in HexStrings(PK_LEN), h \in HexStrings(HASH_LEN),
        g \in HexStrings(HASH_LEN)}

\* the bodies of /public/latest and /public/{n}
RandomJsons ==
    {[round |-> 1, randomness |-> rn, signature |-> sg, previous_signature |-> ps] :
        rn \in HexStrings(RAND_LEN), sg \in HexStrings(SIG_LEN),
        ps \in HexStrings(SIG_LEN)}

InitDecode ==
    /\ state = StateDefault
    /\ endpoints = <<>>
    /\ pc = "test"
    /\ call = CallIdle
    /\ result = ResultNone
    /\ http_log = {}
    /\ test \in {[json |-> j, of |-> "info", res |-> "none", value |-> None] :
                    j \in InfoJsons}
           \cup {[json |-> j, of |-> "random", res |-> "none", value |-> None] :
                    j \in RandomJsons}

\* info.try_into() of boot_phase1
DecodeInfo ==
    /\ pc = "test"
    /\ test.of = "info"
    /\ test.res = "none"
    /\ test' = [test EXCEPT !.res = try_from_info(test.json).kind,
                            !.value = try_from_info(test.json).value]
    /\ UNCHANGED <<state, endpoints, pc, call, result, http_log>>

\* r.try_into() of do_get and of verify
DecodeRandom ==
    /\ pc = "test"
    /\ test.of = "random"
    /\ test.res = "none"
    /\ test' = [test EXCEPT !.res = try_from_random(test.json).kind,
                            !.value = try_from_random(test.json).value]
    /\ UNCHANGED <<state, endpoints, pc, call, result, http_log>>

NextDecode == DecodeInfo \/ DecodeRandom

SpecDecode == InitDecode /\ [][NextDecode]_vars

\* every field of the payload is well-formed hex
AllHex ==
    IF test.of = "info"
    THEN test.json.public_key.valid /\ test.json.hash.valid
            /\ test.json.group_hash.valid
    ELSE test.json.randomness.valid /\ test.json.signature.valid
            /\ test.json.previous_signature.valid

\* a field of the payload has not the length the specification fixes for it
BadLength ==
    IF test.of = "info"
    THEN test.json.public_key.len # PK_LEN
    ELSE \/ test.json.randomness.len # RAND_LEN
         \/ test.json.signature.len # SIG_LEN
         \/ test.json.previous_signature.len # SIG_LEN

(* C20: decoding a payload whose public_key is not 48 bytes long, whose    *)
(* signature or previous_signature is not 96 bytes long or whose           *)
(* randomness is not 32 bytes long fails with Invalid: no such Info or     *)
(* Random is returned by the decoding.                                     *)
C20_StructuralChecks ==
    (test.res # "none" /\ AllHex /\ BadLength)
        => /\ test.res = "Invalid"
           /\ test.value = None

----------------------------------------------------------------------------
(* Round 0 and the latest round (lib.rs DrandClient::get, http.rs do_get)  *)

\* a request for round 0 is in the log of the call that returns
FetchedZero == \E q \in http_log' : q.kind = "round" /\ q.n = 0

\* C21: get(None) fetches the latest round, and get(Some(0)) on a booted
\* client is rejected with Invalid without any request for round 0
C21_ZeroRejected ==
    [][(GetReturns /\ call.booted /\ pc = "get_join")
         => /\ (call.round = None
                  => \E q \in http_log' : q.kind = "latest")
            /\ (call.round = Some(0)
                  => result'.kind = "Invalid" /\ ~FetchedZero)]_vars

----------------------------------------------------------------------------
(* Termination of Http::verify when nothing goes wrong                     *)

\* Http::verify is running and no fetch of its sweep has failed
SweepClean == pc \in {"verify_head", "verify_body"} /\ call.fails = 0

\* C22: a sweep of Http::verify in which every fetch succeeds and every link
\* is valid terminates: it does not stay in the loop for ever
C22_VerifyTerminates == SweepClean ~> ~SweepClean

----------------------------------------------------------------------------
(* A fetch that fails during a sweep of Http::verify                       *)

\* a pass of the loop of Http::verify is about to fetch its window although a
\* fetch of an earlier pass failed
RefetchAfterFailure == pc = "verify_body" /\ call.fails > 0

\* C23: a fetch failure during a sweep ends Http::verify with that error: no
\* window is fetched after a fetch has failed
C23_SweepFailureReturned == ~RefetchAfterFailure

----------------------------------------------------------------------------
(* Latency samples and the endpoints of the pool                           *)

\* the step issues a request on behalf of endpoint i of the pool
Attempted(i) == \E q \in http_log' \ http_log : q.ep = i

\* the window of endpoint i, as stored in the pool, took a sample in the step
Sampled(i) ==
    \/ Len(endpoints'[i]) > Len(endpoints[i])
    \/ (Len(endpoints[i]) = MAX_ELAPSED_WINDOW /\ Len(endpoints'[i]) = MAX_ELAPSED_WINDOW)

\* C24: every HTTP attempt made on behalf of endpoint i of the pool, in the
\* tail of boot or in get, adds a sample to the window of endpoint i as the
\* pool stores it (unless the process aborted on the attempt)
C24_AttemptsRecorded ==
    [][pc' # "panicked"
         => \A i \in DOMAIN endpoints : Attempted(i) => Sampled(i)]_vars

----------------------------------------------------------------------------
(* Decay of an endpoint whose requests fail                                *)

\* a task of Endpoints::get that used endpoint i has just failed on its fetch
GetFailedOn(i) ==
    /\ pc = "get_join"
    /\ \E k \in DOMAIN call.res :
          call.sel[k] = i /\ call.res[k].kind \in FetchErrors

\* get_endpoint_pair does not select endpoint i of the pool
NotSelected(i) == \A k \in DOMAIN get_endpoint_pair(endpoints) :
                      get_endpoint_pair(endpoints)[k] # i

\* the window of endpoint i of the pool has samples and its average has
\* reached MAX_ELAPSED
Decayed(i) ==
    /\ i \in DOMAIN endpoints
    /\ endpoints[i] # <<>>
    /\ to_elapsed(endpoints[i]) >= MAX_ELAPSED

\* C25: an endpoint whose requests keep failing decays: if the gets through
\* endpoint 0 fail again and again, its avg_elapsed in the pool reaches
\* MAX_ELAPSED and get_endpoint_pair stops selecting it
C25_FailingEndpointDecays ==
    ([]<>GetFailedOn(1)) => <>(Decayed(1) /\ NotSelected(1))

----------------------------------------------------------------------------
(* Endpoints that are not eligible for selection                           *)

\* the caller keeps calling get, and every call runs on
FairCalls == FairSpec /\ WF_vars(Get)

\* endpoint i is in the pool and get_endpoint_pair leaves it out: its window
\* is empty or its average has reached MAX_ELAPSED
Ineligible(i) == i \in DOMAIN endpoints /\ i \notin Eligible(endpoints)

\* endpoint i is in the pool and get_endpoint_pair selects it
Selected(i) == i \in DOMAIN endpoints /\ ~NotSelected(i)

\* C26: no endpoint is blacklisted for good: an endpoint of the tail that is
\* not eligible is selected by get_endpoint_pair again (unless the process
\* aborts)
C26_SelectedAgain == Ineligible(2) ~> (Selected(2) \/ pc = "panicked")

----------------------------------------------------------------------------
(* The penalty of a failed attempt, for every window                       *)

\* the step is a failed attempt on the endpoint (add_elapsed!, Err arm)
FailedAttempt == pc = "test" /\ test'.k = test.k + 1 /\ test'.res = "err"

\* C27: a failed attempt pushes exactly min(2 * avg_elapsed, MAX_ELAPSED)
\* onto the window, whatever the window holds (MAX_ELAPSED onto the empty
\* window), and the computation does not abort
C27_PenaltyExact ==
    [][FailedAttempt =>
         LET avg == to_elapsed(endpoints[1])
             es2 == endpoints'[1]
         IN  /\ pc' # "panicked"
             /\ es2 # <<>>
             /\ es2[Len(es2)] = IF 2 * avg < MAX_ELAPSED THEN 2 * avg ELSE MAX_ELAPSED]_vars

----------------------------------------------------------------------------
(* Endpoints::get_endpoint_pair on its own: one call on a pool whose        *)
(* endpoints hold any of a few windows.                                    *)

MaxPool == 3

\* the windows of an endpoint of the pool: new, fast, slower, and around
\* MAX_ELAPSED
PairWindows ==
    {<<>>, <<1>>, <<2>>, <<1, 3>>,
     <<MAX_ELAPSED - 1>>, <<MAX_ELAPSED>>, <<MAX_ELAPSED + 1>>}

\* the pools of up to MaxPool endpoints
PairPools == UNION {[1..n -> PairWindows] : n \in 0..MaxPool}

InitPair ==
    /\ state = StateDefault
    /\ endpoints \in PairPools
    /\ pc = "test"
    /\ call = CallIdle
    /\ result = ResultNone
    /\ http_log = {}
    /\ test = [k |-> 0, res |-> <<>>]

\* self.get_endpoint_pair(): the pool is only read
TestPair ==
    /\ pc = "test"
    /\ test.k = 0
    /\ test' = [k |-> 1, res |-> get_endpoint_pair(endpoints)]
    /\ UNCHANGED <<state, endpoints, pc, call, result, http_log>>

NextPair == TestPair

SpecPair == InitPair /\ [][NextPair]_vars

\* C28: get_endpoint_pair returns the (up to) two distinct endpoints with the
\* smallest avg_elapsed among those strictly below MAX_ELAPSED, the faster
\* first: one when one is eligible, none when none is, and never an endpoint
\* whose avg_elapsed is MAX_ELAPSED or more
C28_PairSelection ==
    test.k = 1 =>
      LET r == test.res
          avg(i) == to_elapsed(endpoints[i])
          below == {i \in DOMAIN endpoints : avg(i) < MAX_ELAPSED}
          chosen == {r[k] : k \in DOMAIN r}
      IN  /\ Len(r) = IF Cardinality(below) < 2 THEN Cardinality(below) ELSE 2
          /\ chosen \subseteq below
          /\ Cardinality(chosen) = Len(r)
          /\ Len(r) = 2 => avg(r[1]) <= avg(r[2])
          /\ \A i \in chosen : \A j \in below \ chosen : avg(i) <= avg(j)

\* of three endpoints the third is the fastest, the first the next, and the
\* second has reached MAX_ELAPSED: the pair is the third, then the first
C28_Witness ==
    /\ test.k = 1
    /\ Len(endpoints) = 3
    /\ to_elapsed(endpoints[2]) = MAX_ELAPSED
    /\ to_elapsed(endpoints[3]) < to_elapsed(endpoints[1])
    /\ test.res = <<3, 1>>

----------------------------------------------------------------------------
(* The order of the steps of one boot                                      *)

\* the step issues a request to an endpoint of the tail
TailContacted == \E q \in http_log' \ http_log : q.ep > 1

\* boot_phase1 of endpoint 0 has returned Ok((info, latest)) in this boot
Phase1Done == call.op = "boot" /\ IsSome(call.info) /\ IsSome(call.latest)

\* every future of the tail has completed
TailsDone == Len(call.tail) = Len(endpoints) - 1

\* C29: within one boot a tail endpoint is contacted only after endpoint 0's
\* boot_phase1 has succeeded, and info is installed and boot_phase2 started
\* only after every tail validation has completed
C29_BootOrder ==
    /\ [][TailContacted => Phase1Done /\ pc = "boot_tail"]_vars
    /\ [][state'.info # state.info => Phase1Done /\ TailsDone]_vars
    /\ [](pc = "boot_phase2" => Phase1Done /\ TailsDone)
    /\ [][(pc = "idle" /\ pc' = "idle" /\ result'.op = "boot")
            => \A q \in http_log' : q.ep = 1]_vars

\* a boot on two endpoints has returned Ok after the tail endpoint was
\* contacted and info installed
C29_Witness ==
    /\ pc = "idle"
    /\ result.op = "boot"
    /\ result.kind = "Ok"
    /\ Len(endpoints) = 2
    /\ \E q \in http_log : q.ep = 2 /\ q.kind = "round"
    /\ state.info = Info(GROUP_PK, CHAIN_HASH)

----------------------------------------------------------------------------
(* What a get may change in the State of the pool                          *)

\* the step leaves everything of State but check_point as it is
OnlyCheckPoint ==
    /\ state'.info = state.info
    /\ state'.determinism = state.determinism
    /\ state'.secure = state.secure
    /\ state'.rate_limit = state.rate_limit

\* C30: a get changes nothing in State but check_point, and only when it
\* returns Ok: a get that returns an error leaves State as it was
C30_GetFrame ==
    [][call.op = "get"
         => IF GetReturns /\ result'.kind = "Ok"
            THEN OnlyCheckPoint
            ELSE state' = state]_vars

\* a client booted without check_point (neither secure nor deterministic)
\* has returned a round from get, which is now its check_point
C30_Witness ==
    /\ pc = "idle"
    /\ call.booted
    /\ result.op = "get"
    /\ result.kind = "Ok"
    /\ ~state.secure
    /\ ~state.determinism
    /\ state.check_point = result.value
    /\ state.info = Info(GROUP_PK, CHAIN_HASH)
    /\ state.rate_limit = MAX_CONNS

----------------------------------------------------------------------------
(* A second boot on a client that is booted: the behaviours start after a   *)
(* boot on two endpoints returned Ok with the group's Info.                *)

\* the State after a boot that returned Ok: the check_point is the latest
\* round when the client is secure or deterministic, none otherwise
RebootStates ==
    UNION {{[info |-> Info(GROUP_PK, CHAIN_HASH), check_point |-> cp,
             determinism |-> d, secure |-> sec, rate_limit |-> MAX_CONNS] :
               cp \in IF d \/ sec
                      THEN {Some(Honest(k)) : k \in 1..(MaxRound - 1)}
                      ELSE {None}} :
           d \in BOOLEAN, sec \in BOOLEAN}

InitReboot ==
    /\ state \in RebootStates
    /\ endpoints = <<(<<TicksPerSec, TicksPerSec>>), (<<>>)>>
    /\ pc = "idle"
    /\ call = [CallIdle EXCEPT !.booted = TRUE]
    /\ result = [op |-> "boot", kind |-> "Ok", value |-> None]
    /\ http_log = {}
    /\ test = TestIdle

NextReboot ==
    \/ Boot
    \/ BootTail
    \/ BootPhase2
    \/ Get
    \/ GetLoop
    \/ HttpGet
    \/ GetJoin
    \/ VerifyHead
    \/ VerifyBody

SpecReboot == InitReboot /\ [][NextReboot]_vars

\* the boot in progress returns an error
BootFails == call.op = "boot" /\ pc' = "idle" /\ result'.kind # "Ok"

\* the last call that returned was a boot, and it failed
BootFailed == result.op = "boot" /\ result.kind # "Ok"

\* C31: when a boot on a booted client fails the client is unbooted: the
\* State does not keep the info of the failed boot with the check_point of
\* the earlier boot, and a get that follows fails
C31_FailedBootUnboots ==
    /\ [][BootFails /\ IsSome(call.info)
            => ~(state'.info = Unwrap(call.info) /\ IsSome(state'.check_point))]_vars
    /\ [][GetReturns /\ BootFailed => result'.kind # "Ok"]_vars

----------------------------------------------------------------------------
(* The origin of the sweep of a boot that reestablishes determinism        *)

\* boot_phase2 returns Ok from its arm (true, None): the sweep from the
\* round 1 it fetched, which is still call.prev, has returned
ReestablishReturnsOk ==
    /\ BootReturnsOk
    /\ pc = "verify_head"
    /\ state.determinism
    /\ ~IsSome(state.check_point)

\* C32: in a boot that reestablishes determinism the round 1 fetched from the
\* endpoint is verified against info.group_hash before it is the origin of
\* the sweep: boot does not return Ok from a round 1 that fails verify_chain
C32_OriginVerified ==
    [][ReestablishReturnsOk
         => verify_chain(state.info.public_key, state.info.group_hash,
                         Unwrap(call.prev)) = "true"]_vars

----------------------------------------------------------------------------
(* The State of the pool and the States of the tasks of a race             *)

\* the State Http::get returns for a pool State st, the round asked for and
\* the Random r it returns
GetResultState(st, round, r) ==
    LET pol == policy_get(st, round, Unwrap(r))
    IN  get_state(st, IF pol.verify THEN r ELSE pol.check_point)

\* the tasks of the race that returned Ok
RaceOk == {i \in 1..2 : call.res[i].kind = "Ok"}

\* C33: each task of a race works on its own copy of the pool State as it
\* was before the race; the pool State is not touched while the tasks run,
\* and after the get it is the State of one task, whole, or what it was
C33_RaceIsolation ==
    /\ [][call.op = "get" /\ pc # "get_join" => state' = state]_vars
    /\ [](Raced => \A i \in RaceOk :
                     call.res[i].st = GetResultState(state, call.round, call.res[i].r))
    /\ [][Raced => IF RaceOk = {}
                   THEN state' = state
                   ELSE \E i \in RaceOk :
                          /\ state' = call.res[i].st
                          /\ result'.value = call.res[i].r]_vars

\* both tasks of a race returned Ok with different rounds: their States
\* hold different check_points, and one of them is to be discarded
C33_Witness ==
    /\ Raced
    /\ RaceOk = {1, 2}
    /\ call.res[1].st.check_point # call.res[2].st.check_point
    /\ call.res[1].st.check_point # state.check_point
    /\ call.res[2].st.check_point # state.check_point

----------------------------------------------------------------------------
(* The windows of Http::verify on their own: the passes of the loop for    *)
(* rounds that are close, 1000 apart, and thousands apart, every fetch      *)
(* succeeding and every link valid.                                        *)

\* the rounds of prev and of till when verify is called
SweepFroms == {1, 2, 3, 500, 1000, 1001, 2000}

SweepTills == {1, 2, 3, 500, 1000, 1001, 1002, 2000, 3001, 5000}

InitSweep ==
    /\ state = StateDefault
    /\ endpoints = <<(<<TicksPerSec>>)>>
    /\ pc = "test"
    /\ call = CallIdle
    /\ result = ResultNone
    /\ http_log = {}
    /\ test \in {[prev |-> f, till |-> t, inflight |-> 0, passes |-> 0] :
                    f \in SweepFroms, t \in SweepTills}

\* one pass of the loop that fetches at least one round: the futures of the
\* window are all handed to join_all together, and prev becomes the last
TestSweep ==
    /\ pc = "test"
    /\ test.prev < test.till
    /\ LET rounds == SweepRounds([round |-> test.prev], [round |-> test.till])
       IN  /\ rounds # {}
           /\ test' = [test EXCEPT !.prev = @ + Cardinality(rounds),
                                   !.inflight = Cardinality(rounds),
                                   !.passes = @ + 1]
    /\ UNCHANGED <<state, endpoints, pc, call, result, http_log>>

NextSweep == TestSweep

SpecSweep == InitSweep /\ [][NextSweep]_vars

\* C34: in a sweep at most 1000 fetches of rounds are in flight at a time,
\* whatever the distance from prev.round to till.round
C34_BatchCap == test.inflight <= VERIFY_BATCH

\* the second pass of a sweep over thousands of rounds had a full window
C34_Witness ==
    /\ test.passes = 2
    /\ test.till - test.prev > VERIFY_BATCH
    /\ test.inflight = VERIFY_BATCH - 1

----------------------------------------------------------------------------
(* The kinds of endpoints and their base URLs: a pool is filled with        *)
(* endpoints of any kinds.                                                  *)

MaxKinds == 4

\* enum Endpoint
EndpointKinds == {"HttpDrandApi", "HttpDrandApi2", "HttpDrandApi3", "HttpCloudflare"}

\* Http::new_drand_api: Http::DrandApi(Vec::default()), the only variant of
\* Http, which holds nothing but the window
new_drand_api == <<>>

\* the match of Endpoints::add_endpoint on the kind
add_endpoint(kind) ==
    CASE kind = "HttpDrandApi" -> new_drand_api
      [] kind = "HttpDrandApi2" -> new_drand_api
      [] kind = "HttpDrandApi3" -> new_drand_api
      [] kind = "HttpCloudflare" -> new_drand_api

\* Http::to_base_url: the match has one arm, for Http::DrandApi(_)
to_base_url(endp) == "https://api.drand.sh"

InitKinds ==
    /\ state = StateDefault
    /\ endpoints = <<>>
    /\ pc = "test"
    /\ call = CallIdle
    /\ result = ResultNone
    /\ http_log = {}
    /\ test = [kinds |-> <<>>]

\* endpoints.add_endpoint(kind)
TestAddEndpoint ==
    /\ pc = "test"
    /\ Len(endpoints) < MaxKinds
    /\ \E kind \in EndpointKinds :
          /\ endpoints' = Append(endpoints, add_endpoint(kind))
          /\ test' = [test EXCEPT !.kinds = Append(@, kind)]
    /\ UNCHANGED <<state, pc, call, result, http_log>>

NextKinds == TestAddEndpoint

SpecKinds == InitKinds /\ [][NextKinds]_vars

\* C35: each kind of endpoint has its own base URL: two entries of the pool
\* that were added with different kinds send their requests to different
\* hosts
C35_KindsHaveOwnHosts ==
    \A i, j \in DOMAIN endpoints :
        test.kinds[i] # test.kinds[j]
            => to_base_url(endpoints[i]) # to_base_url(endpoints[j])

============================================================================
